---- MODULE Spec2Model ----
(***************************************************************************)
(* Block header of chain-impl-mockchain (block/header.rs): the Header /    *)
(* Common / Proof data model, the size-prefixed binary codec, the proof    *)
(* verification and the identity hash.                                     *)
(*                                                                         *)
(* Bytes are integers 0..255 and every field keeps its wire width.  The    *)
(* packer Codec, the key/signature encodings, the signature scheme and the *)
(* digest live in other crates (chain-core, chain-crypto); they are        *)
(* modelled from their documented contract.                                *)
(***************************************************************************)
EXTENDS Integers, Sequences, FiniteSets, TLC

VARIABLES hdr, wire, pc, decoded, verified, id, signedBy, signedCommon

vars == <<hdr, wire, pc, decoded, verified, id, signedBy, signedCommon>>

(***************************************************************************)
(* Bounds of the model.                                                    *)
(***************************************************************************)
\* block_version values range over 0..MaxVersion (3 and up are unsupported).
MaxVersion == 3
\* key pairs 1..NumKeys
NumKeys == 2
\* field-value profiles 0..MaxProfile a Common is built from
MaxProfile == 1
\* VRF key / proof values 1..NumVrf
NumVrf == 2

(***************************************************************************)
(* Program constants.                                                      *)
(***************************************************************************)
BLOCK_VERSION_CONSENSUS_NONE == 0
BLOCK_VERSION_CONSENSUS_BFT == 1
BLOCK_VERSION_CONSENSUS_GENESIS_PRAOS == 2
\* width of a Hash (Blake2b256) on the wire
HashSize == 32
\* widths of the primitives' canonical encodings
LeaderIdSize == 32
SignatureSize == 64
VrfPublicSize == 32
VrfProofSize == 96

(***************************************************************************)
(* Bytes and the packer Codec's fixed-width big-endian integers.           *)
(***************************************************************************)
Fill(n, b) == [i \in 1..n |-> b]

\* `x as u16`
AsU16(x) == x % 65536

PutU16(v) == << (v \div 256) % 256, v % 256 >>

PutU32(v) ==
    << (v \div 16777216) % 256, (v \div 65536) % 256, (v \div 256) % 256, v % 256 >>

U16At(bytes, pos) == bytes[pos] * 256 + bytes[pos + 1]

U32At(bytes, pos) ==
    bytes[pos] * 16777216 + bytes[pos + 1] * 65536 + bytes[pos + 2] * 256 + bytes[pos + 3]

\* A read of n bytes at the cursor: fails (UnexpectedEof) when fewer remain.
ReadExact(bytes, pos, n) ==
    IF pos + n - 1 <= Len(bytes)
    THEN [ok |-> TRUE, val |-> SubSeq(bytes, pos, pos + n - 1), next |-> pos + n]
    ELSE [ok |-> FALSE, val |-> <<>>, next |-> pos]

\* buffered.hole(n): n placeholder bytes appended to the buffer
Hole(buf, n) == buf \o Fill(n, 0)

\* buffered.fill_hole_u16(hole, value): the two bytes at the hole are patched
FillHoleU16(buf, start, value) ==
    [i \in 1..Len(buf) |->
        IF i = start THEN PutU16(value)[1]
        ELSE IF i = start + 1 THEN PutU16(value)[2]
        ELSE buf[i]]

(***************************************************************************)
(* Cryptographic collaborators, idealised.                                 *)
(***************************************************************************)
Keys == 1..NumKeys

\* the public key of key pair k, as its 32 bytes
PublicKeyOf(k) == Fill(LeaderIdSize, k)

\* A 32-byte digest of a message, injective on the messages of this model.
MessageDigest(msg) ==
    [i \in 1..32 |->
        ( (IF i <= Len(msg) THEN msg[i] ELSE 0)
        + 3 * (IF i + 32 <= Len(msg) THEN msg[i + 32] ELSE 0)
        + 5 * (IF i + 64 <= Len(msg) THEN msg[i + 64] ELSE 0) ) % 256]

\* sign(secret, bytes): the signature of key pair k over msg, as its 64 bytes
SignBytes(k, msg) == PublicKeyOf(k) \o MessageDigest(msg)

\* verify(public, bytes, signature)
VerifySignature(pk, msg, sig) ==
    \E k \in Keys : pk = PublicKeyOf(k) /\ sig = SignBytes(k, msg)

\* Hash::hash_bytes: an ideal digest, named by what it digests
HashBytes(bytes) == [digest_of |-> bytes]

(***************************************************************************)
(* Data model.                                                             *)
(***************************************************************************)
ProofNone ==
    [tag |-> "None", leader_id |-> <<>>, signature |-> <<>>,
     vrf_public_key |-> <<>>, vrf_proof |-> <<>>,
     kes_public_key |-> <<>>, kes_proof |-> <<>>]

ProofBft(leader_id, signature) ==
    [tag |-> "Bft", leader_id |-> leader_id, signature |-> signature,
     vrf_public_key |-> <<>>, vrf_proof |-> <<>>,
     kes_public_key |-> <<>>, kes_proof |-> <<>>]

ProofGenesisPraos(vrf_public_key, vrf_proof, kes_public_key, kes_proof) ==
    [tag |-> "GenesisPraos", leader_id |-> <<>>, signature |-> <<>>,
     vrf_public_key |-> vrf_public_key, vrf_proof |-> vrf_proof,
     kes_public_key |-> kes_public_key, kes_proof |-> kes_proof]

MkCommon(version, epoch, slot_id, content_size, content_hash, parent_hash) ==
    [block_version |-> version,
     block_date |-> [epoch |-> epoch, slot_id |-> slot_id],
     block_content_size |-> content_size,
     block_content_hash |-> content_hash,
     block_parent_hash |-> parent_hash]

Header(common, proof) == [common |-> common, proof |-> proof]

(***************************************************************************)
(* <Common as Serialize>::serialize                                        *)
(***************************************************************************)
\* block_version is written four bytes wide, like the fields after it
CommonSerializeVersionAsU32(c) ==
       PutU32(c.block_version)
    \o PutU32(c.block_content_size)
    \o PutU32(c.block_date.epoch)
    \o PutU32(c.block_date.slot_id)
    \o c.block_content_hash
    \o c.block_parent_hash

CommonSerialize(c) ==
       PutU16(c.block_version)
    \o PutU32(c.block_content_size)
    \o PutU32(c.block_date.epoch)
    \o PutU32(c.block_date.slot_id)
    \o c.block_content_hash
    \o c.block_parent_hash

(***************************************************************************)
(* <Header as Serialize>::serialize                                        *)
(***************************************************************************)
ProofSerialize(p) ==
    CASE p.tag = "None" -> <<>>
      [] p.tag = "Bft" -> p.leader_id \o p.signature
      [] p.tag = "GenesisPraos" ->
            p.vrf_public_key \o p.vrf_proof \o p.kes_public_key \o p.kes_proof

\* the size written is the whole buffer's length, the hole included
HeaderSerializeSizeWithHole(h) ==
    LET buffered == Hole(<<>>, 2) \o CommonSerialize(h.common) \o ProofSerialize(h.proof)
    IN  FillHoleU16(buffered, 1, AsU16(Len(buffered)))

HeaderSerialize(h) ==
    LET buffered == Hole(<<>>, 2) \o CommonSerialize(h.common) \o ProofSerialize(h.proof)
    IN  FillHoleU16(buffered, 1, AsU16(Len(buffered)) - 2)

(***************************************************************************)
(* <Header as Deserialize>::deserialize                                    *)
(* The outcome of a call: Ok(header), Err(io error) or a panic             *)
(* (unimplemented!).  `consumed` counts the bytes read from the reader.    *)
(***************************************************************************)
Ok(h, n) == [kind |-> "Ok", value |-> <<h>>, error |-> "", consumed |-> n]

Err(e, n) == [kind |-> "Err", value |-> <<>>, error |-> e, consumed |-> n]

Panic(e, n) == [kind |-> "Panic", value |-> <<>>, error |-> e, consumed |-> n]

\* a short read of the BFT proof is swallowed and the header passes as proof-less
ProofDeserializeIgnoresEof(bytes, pos, block_version) ==
    IF block_version = BLOCK_VERSION_CONSENSUS_NONE
    THEN [kind |-> "Ok", proof |-> ProofNone, next |-> pos]
    ELSE IF block_version = BLOCK_VERSION_CONSENSUS_BFT
    THEN LET leader_id == ReadExact(bytes, pos, LeaderIdSize)
             signature == ReadExact(bytes, leader_id.next, SignatureSize)
         IN  IF ~leader_id.ok \/ ~signature.ok
             THEN [kind |-> "Ok", proof |-> ProofNone, next |-> signature.next]
             ELSE [kind |-> "Ok", proof |-> ProofBft(leader_id.val, signature.val),
                   next |-> signature.next]
    ELSE [kind |-> "Panic", proof |-> ProofNone, next |-> pos]

\* GENESIS_PRAOS falls into the proof-less branch
ProofDeserializePraosAsNone(bytes, pos, block_version) ==
    IF block_version \in {BLOCK_VERSION_CONSENSUS_NONE, BLOCK_VERSION_CONSENSUS_GENESIS_PRAOS}
    THEN [kind |-> "Ok", proof |-> ProofNone, next |-> pos]
    ELSE IF block_version = BLOCK_VERSION_CONSENSUS_BFT
    THEN LET leader_id == ReadExact(bytes, pos, LeaderIdSize)
             signature == ReadExact(bytes, leader_id.next, SignatureSize)
         IN  IF ~leader_id.ok
             THEN [kind |-> "Err", proof |-> ProofNone, next |-> leader_id.next]
             ELSE IF ~signature.ok
             THEN [kind |-> "Err", proof |-> ProofNone, next |-> signature.next]
             ELSE [kind |-> "Ok", proof |-> ProofBft(leader_id.val, signature.val),
                   next |-> signature.next]
    ELSE [kind |-> "Panic", proof |-> ProofNone, next |-> pos]

\* an unknown block_version is defaulted to the proof-less branch
ProofDeserializeDefaultsToNone(bytes, pos, block_version) ==
    IF block_version = BLOCK_VERSION_CONSENSUS_BFT
    THEN LET leader_id == ReadExact(bytes, pos, LeaderIdSize)
             signature == ReadExact(bytes, leader_id.next, SignatureSize)
         IN  IF ~leader_id.ok
             THEN [kind |-> "Err", proof |-> ProofNone, next |-> leader_id.next]
             ELSE IF ~signature.ok
             THEN [kind |-> "Err", proof |-> ProofNone, next |-> signature.next]
             ELSE [kind |-> "Ok", proof |-> ProofBft(leader_id.val, signature.val),
                   next |-> signature.next]
    ELSE IF block_version = BLOCK_VERSION_CONSENSUS_GENESIS_PRAOS
    THEN [kind |-> "Panic", proof |-> ProofNone, next |-> pos]
    ELSE [kind |-> "Ok", proof |-> ProofNone, next |-> pos]

\* the proof section, read after Common at cursor pos; block_version picks the branch
ProofDeserialize(bytes, pos, block_version) ==
    IF block_version = BLOCK_VERSION_CONSENSUS_NONE
    THEN [kind |-> "Ok", proof |-> ProofNone, next |-> pos]
    ELSE IF block_version = BLOCK_VERSION_CONSENSUS_BFT
    THEN LET leader_id == ReadExact(bytes, pos, LeaderIdSize)
             signature == ReadExact(bytes, leader_id.next, SignatureSize)
         IN  IF ~leader_id.ok
             THEN [kind |-> "Err", proof |-> ProofNone, next |-> leader_id.next]
             ELSE IF ~signature.ok
             THEN [kind |-> "Err", proof |-> ProofNone, next |-> signature.next]
             ELSE [kind |-> "Ok", proof |-> ProofBft(leader_id.val, signature.val),
                   next |-> signature.next]
    ELSE \* GENESIS_PRAOS and every other value: unimplemented!()
         [kind |-> "Panic", proof |-> ProofNone, next |-> pos]

\* the size read is held against the bytes that follow it
HeaderDeserializeChecksSize(bytes) ==
    LET header_size == ReadExact(bytes, 1, 2)
        version == ReadExact(bytes, header_size.next, 2)
        content_size == ReadExact(bytes, version.next, 4)
        epoch == ReadExact(bytes, content_size.next, 4)
        slot_id == ReadExact(bytes, epoch.next, 4)
        content_hash == ReadExact(bytes, slot_id.next, HashSize)
        parent_hash == ReadExact(bytes, content_hash.next, HashSize)
    IN  IF ~header_size.ok THEN Err("UnexpectedEof", 0)
        ELSE IF U16At(header_size.val, 1) # Len(bytes) - 2 THEN Err("InvalidData", 2)
        ELSE IF ~version.ok THEN Err("UnexpectedEof", version.next - 1)
        ELSE IF ~content_size.ok THEN Err("UnexpectedEof", content_size.next - 1)
        ELSE IF ~epoch.ok THEN Err("UnexpectedEof", epoch.next - 1)
        ELSE IF ~slot_id.ok THEN Err("UnexpectedEof", slot_id.next - 1)
        ELSE IF ~content_hash.ok THEN Err("UnexpectedEof", content_hash.next - 1)
        ELSE IF ~parent_hash.ok THEN Err("UnexpectedEof", parent_hash.next - 1)
        ELSE LET block_version == U16At(version.val, 1)
                 proof == ProofDeserialize(bytes, parent_hash.next, block_version)
                 common == MkCommon(block_version, U32At(epoch.val, 1),
                                    U32At(slot_id.val, 1), U32At(content_size.val, 1),
                                    content_hash.val, parent_hash.val)
             IN  CASE proof.kind = "Ok" -> Ok(Header(common, proof.proof), proof.next - 1)
                   [] proof.kind = "Err" -> Err("UnexpectedEof", proof.next - 1)
                   [] proof.kind = "Panic" -> Panic("unimplemented", proof.next - 1)

HeaderDeserialize(bytes) ==
    LET header_size == ReadExact(bytes, 1, 2)
        version == ReadExact(bytes, header_size.next, 2)
        content_size == ReadExact(bytes, version.next, 4)
        epoch == ReadExact(bytes, content_size.next, 4)
        slot_id == ReadExact(bytes, epoch.next, 4)
        content_hash == ReadExact(bytes, slot_id.next, HashSize)
        parent_hash == ReadExact(bytes, content_hash.next, HashSize)
    IN  IF ~header_size.ok THEN Err("UnexpectedEof", 0)
        ELSE IF ~version.ok THEN Err("UnexpectedEof", version.next - 1)
        ELSE IF ~content_size.ok THEN Err("UnexpectedEof", content_size.next - 1)
        ELSE IF ~epoch.ok THEN Err("UnexpectedEof", epoch.next - 1)
        ELSE IF ~slot_id.ok THEN Err("UnexpectedEof", slot_id.next - 1)
        ELSE IF ~content_hash.ok THEN Err("UnexpectedEof", content_hash.next - 1)
        ELSE IF ~parent_hash.ok THEN Err("UnexpectedEof", parent_hash.next - 1)
        ELSE LET block_version == U16At(version.val, 1)
                 proof == ProofDeserialize(bytes, parent_hash.next, block_version)
                 common == MkCommon(block_version, U32At(epoch.val, 1),
                                    U32At(slot_id.val, 1), U32At(content_size.val, 1),
                                    content_hash.val, parent_hash.val)
             IN  CASE proof.kind = "Ok" -> Ok(Header(common, proof.proof), proof.next - 1)
                   [] proof.kind = "Err" -> Err("UnexpectedEof", proof.next - 1)
                   [] proof.kind = "Panic" -> Panic("unimplemented", proof.next - 1)

(***************************************************************************)
(* Header::verify_proof                                                    *)
(***************************************************************************)
\* PublicKey::serialize_and_verify: the value is serialized and the
\* signature checked over those bytes
SerializeAndVerify(pk, common, sig) ==
    VerifySignature(pk, CommonSerialize(common), sig)

\* the BFT signature is checked over the whole header body, proof included
VerifyProofOverHeaderBody(h) ==
    CASE h.proof.tag = "None" -> TRUE
      [] h.proof.tag = "Bft" ->
            VerifySignature(h.proof.leader_id,
                            CommonSerialize(h.common) \o ProofSerialize(h.proof),
                            h.proof.signature)
      [] h.proof.tag = "GenesisPraos" ->
            SerializeAndVerify(h.proof.kes_public_key, h.common, h.proof.kes_proof)

\* a proof-less header is accepted only under block_version NONE
VerifyProofNoneChecksVersion(h) ==
    CASE h.proof.tag = "None" -> h.common.block_version = BLOCK_VERSION_CONSENSUS_NONE
      [] h.proof.tag = "Bft" ->
            SerializeAndVerify(h.proof.leader_id, h.common, h.proof.signature)
      [] h.proof.tag = "GenesisPraos" ->
            SerializeAndVerify(h.proof.kes_public_key, h.common, h.proof.kes_proof)

\* the genesis-praos result also rests on the VRF fields
VerifyProofChecksVrf(h) ==
    CASE h.proof.tag = "None" -> TRUE
      [] h.proof.tag = "Bft" ->
            SerializeAndVerify(h.proof.leader_id, h.common, h.proof.signature)
      [] h.proof.tag = "GenesisPraos" ->
            /\ SerializeAndVerify(h.proof.kes_public_key, h.common, h.proof.kes_proof)
            /\ h.proof.vrf_proof[1] = h.proof.vrf_public_key[1]

VerifyProof(h) ==
    CASE h.proof.tag = "None" -> TRUE
      [] h.proof.tag = "Bft" ->
            SerializeAndVerify(h.proof.leader_id, h.common, h.proof.signature)
      [] h.proof.tag = "GenesisPraos" ->
            SerializeAndVerify(h.proof.kes_public_key, h.common, h.proof.kes_proof)

(***************************************************************************)
(* Header::hash and <Header as property::Header>::id                       *)
(***************************************************************************)
\* the slice starts one byte early: half of the size prefix is hashed
HashKeepsPrefixByte(h) ==
    LET bytes == HeaderSerialize(h)
    IN  HashBytes(SubSeq(bytes, 2, Len(bytes)))

Hash(h) ==
    LET bytes == HeaderSerialize(h)
    IN  HashBytes(SubSeq(bytes, 3, Len(bytes)))

HeaderId(h) == Hash(h)

(***************************************************************************)
(* The headers and inputs of the model.                                    *)
(***************************************************************************)
Versions == 0..MaxVersion

Profiles == 0..MaxProfile

\* the values one field takes over the profiles
SizeUnit == U32At(<<1, 2, 3, 4>>, 1)
EpochUnit == U32At(<<5, 6, 7, 8>>, 1)
SlotUnit == U32At(<<9, 10, 11, 12>>, 1)
ContentFillUnit == 16 + 1
ParentFillUnit == 32 + 2

ProfileCommon(v, p) ==
    MkCommon(v, p * EpochUnit, p * SlotUnit, p * SizeUnit,
             Fill(HashSize, p * ContentFillUnit), Fill(HashSize, p * ParentFillUnit))

Commons == { ProfileCommon(v, p) : v \in Versions, p \in Profiles }

\* a signature no key pair produced
NoSignature == Fill(SignatureSize, 0)

\* (VRF public key, VRF proof) values: each varies while the other is fixed
VrfPairs == { v \in (1..NumVrf) \X (1..NumVrf) : v[1] = 1 \/ v[2] = 1 }

UnsignedProofs ==
    {ProofNone}
    \cup { ProofBft(PublicKeyOf(k), NoSignature) : k \in Keys }
    \cup { ProofGenesisPraos(Fill(VrfPublicSize, v[1]), Fill(VrfProofSize, v[2]),
                             PublicKeyOf(k), NoSignature) :
             v \in VrfPairs, k \in Keys }

\* lengths an input is cut to: inside or at the end of each field
CutPoints == {1, 3, 6, 10, 14, 40, 70, 80, 90, 130}

\* size-prefix values an input is given: zero, the body of a proof-less header, the largest
SizeValues == {0, 78, 65535}

NoOutcome == [kind |-> "None", value |-> <<>>, error |-> "", consumed |-> 0]

NoId == [digest_of |-> <<>>]

\* the next value of a field, for a change after signing
NextOf(x, unit) == (x + unit) % ((MaxProfile + 1) * unit)

Fields ==
    {"block_version", "block_content_size", "epoch", "slot_id",
     "block_content_hash", "block_parent_hash"}

AlterCommon(c, f) ==
    CASE f = "block_version" ->
            [c EXCEPT !.block_version = (@ + 1) % (MaxVersion + 1)]
      [] f = "block_content_size" ->
            [c EXCEPT !.block_content_size = NextOf(@, SizeUnit)]
      [] f = "epoch" -> [c EXCEPT !.block_date.epoch = NextOf(@, EpochUnit)]
      [] f = "slot_id" -> [c EXCEPT !.block_date.slot_id = NextOf(@, SlotUnit)]
      [] f = "block_content_hash" ->
            [c EXCEPT !.block_content_hash = Fill(HashSize, NextOf(@[1], ContentFillUnit))]
      [] f = "block_parent_hash" ->
            [c EXCEPT !.block_parent_hash = Fill(HashSize, NextOf(@[1], ParentFillUnit))]

(***************************************************************************)
(* State machine.                                                          *)
(*   hdr       the Header value in hand                                    *)
(*   wire      the byte buffer written by serialize / read by deserialize  *)
(*   pc        the last operation performed                                *)
(*   decoded   outcome of the last deserialize                             *)
(*   verified  result of the last verify_proof                             *)
(*   id        result of the last id()                                     *)
(*   signedBy, signedCommon   the key pair that signed hdr (0: none) and   *)
(*             the Common it signed                                        *)
(***************************************************************************)
\* A Header built field by field (the fields are pub(crate): any pair of
\* block_version and proof variant can be put together), not yet signed.
Init ==
    /\ \E common \in Commons, proof \in UnsignedProofs :
          /\ hdr = Header(common, proof)
          /\ signedCommon = common
    /\ wire = <<>>
    /\ pc = "constructed"
    /\ decoded = NoOutcome
    /\ verified = FALSE
    /\ id = NoId
    /\ signedBy = 0

\* the block producer signs Common with key pair k and embeds k's public key
Sign(k) ==
    /\ pc = "constructed"
    /\ hdr.proof.tag \in {"Bft", "GenesisPraos"}
    /\ LET sig == SignBytes(k, CommonSerialize(hdr.common))
       IN  hdr' = [hdr EXCEPT !.proof =
                     IF @.tag = "Bft"
                     THEN ProofBft(PublicKeyOf(k), sig)
                     ELSE ProofGenesisPraos(@.vrf_public_key, @.vrf_proof,
                                            PublicKeyOf(k), sig)]
    /\ pc' = "signed"
    /\ signedBy' = k
    /\ signedCommon' = hdr.common
    /\ UNCHANGED <<wire, decoded, verified, id>>

\* one field of Common is changed after signing (a new Header value)
Alter(f) ==
    /\ pc = "signed"
    /\ hdr' = [hdr EXCEPT !.common = AlterCommon(@, f)]
    /\ pc' = "altered"
    /\ UNCHANGED <<wire, decoded, verified, id, signedBy, signedCommon>>

\* another key pair's public key is put in place of the signer's
SubstituteKey(k) ==
    /\ pc = "signed"
    /\ k # signedBy
    /\ hdr' = [hdr EXCEPT !.proof =
                 IF @.tag = "Bft"
                 THEN [@ EXCEPT !.leader_id = PublicKeyOf(k)]
                 ELSE [@ EXCEPT !.kes_public_key = PublicKeyOf(k)]]
    /\ pc' = "altered"
    /\ UNCHANGED <<wire, decoded, verified, id, signedBy, signedCommon>>

\* header.serialize(writer) into an empty buffer
Serialize ==
    /\ wire' = HeaderSerialize(hdr)
    /\ pc' = "serialized"
    /\ decoded' = NoOutcome
    /\ verified' = FALSE
    /\ id' = NoId
    /\ UNCHANGED <<hdr, signedBy, signedCommon>>

\* the byte source ends early: only the first n bytes arrive
Truncate(n) ==
    /\ pc = "serialized"
    /\ n < Len(wire)
    /\ wire' = SubSeq(wire, 1, n)
    /\ pc' = "received"
    /\ UNCHANGED <<hdr, decoded, verified, id, signedBy, signedCommon>>

\* the input arrives under another size prefix: its first two bytes are v
TamperSize(v) ==
    /\ pc = "serialized"
    /\ v # U16At(wire, 1)
    /\ wire' = PutU16(v) \o SubSeq(wire, 3, Len(wire))
    /\ pc' = "received"
    /\ UNCHANGED <<hdr, decoded, verified, id, signedBy, signedCommon>>

\* Header::deserialize(reader) on the bytes of wire
Deserialize ==
    /\ decoded' = HeaderDeserialize(wire)
    /\ pc' = "deserialized"
    /\ verified' = FALSE
    /\ id' = NoId
    /\ UNCHANGED <<hdr, wire, signedBy, signedCommon>>

\* header.verify_proof()
DoVerifyProof ==
    /\ verified' = VerifyProof(hdr)
    /\ pc' = "verified"
    /\ decoded' = NoOutcome
    /\ id' = NoId
    /\ UNCHANGED <<hdr, wire, signedBy, signedCommon>>

\* header.id()
DoId ==
    /\ id' = HeaderId(hdr)
    /\ pc' = "id"
    /\ decoded' = NoOutcome
    /\ verified' = FALSE
    /\ UNCHANGED <<hdr, wire, signedBy, signedCommon>>

Next ==
    \/ \E k \in Keys : Sign(k)
    \/ \E f \in Fields : Alter(f)
    \/ \E k \in Keys : SubstituteKey(k)
    \/ Serialize
    \/ \E n \in CutPoints : Truncate(n)
    \/ \E v \in SizeValues : TamperSize(v)
    \/ Deserialize
    \/ DoVerifyProof
    \/ DoId

Spec == Init /\ [][Next]_vars

(***************************************************************************)
(* Properties.                                                             *)
(***************************************************************************)
\* bytes of the size prefix, of Common on the wire, and of a BFT proof
PrefixSize == Len(PutU16(0))

CommonSize == 2 + 4 + 4 + 4 + HashSize + HashSize

BftProofSize == LeaderIdSize + SignatureSize

GenesisPraosProofSize == VrfPublicSize + VrfProofSize + LeaderIdSize + SignatureSize

\* the block_version read from an input that holds it
WireVersion(bytes) == U16At(bytes, PrefixSize + 1)

\* block_version and proof variant agree
Matching(h) ==
    \/ h.common.block_version = BLOCK_VERSION_CONSENSUS_NONE /\ h.proof.tag = "None"
    \/ h.common.block_version = BLOCK_VERSION_CONSENSUS_BFT /\ h.proof.tag = "Bft"
    \/ /\ h.common.block_version = BLOCK_VERSION_CONSENSUS_GENESIS_PRAOS
       /\ h.proof.tag = "GenesisPraos"

\* wire holds all of hdr's serialization
WireIsWhole == wire = HeaderSerialize(hdr)

\* the bytes of the serialized header that lie between the size prefix and
\* the proof section
CommonBytesOnWire(h) ==
    SubSeq(HeaderSerialize(h), PrefixSize + 1, PrefixSize + CommonSize)

\* C1: decoding the serialization of a header whose block_version is NONE,
\* BFT or GENESIS_PRAOS and whose proof variant matches it succeeds and gives
\* back an equal header.
C1_RoundTrip ==
    (pc = "deserialized" /\ Matching(hdr) /\ WireIsWhole)
        => (decoded.kind = "Ok" /\ decoded.value = <<hdr>>)

\* C2: the first two bytes of a serialized header, read big-endian, are the
\* number of bytes that follow them, and that number fits 16 bits.
C2_SizePrefix ==
    pc = "serialized" =>
        /\ Len(wire) >= PrefixSize
        /\ Len(wire) - PrefixSize < 65536
        /\ U16At(wire, 1) = Len(wire) - PrefixSize

C2_Witness ==
    /\ pc = "serialized"
    /\ hdr.proof.tag = "GenesisPraos"
    /\ Len(wire) = PrefixSize + CommonSize + GenesisPraosProofSize

\* C3: the id of a header is the digest of its serialization without the
\* first two bytes, and nothing else: headers whose serializations agree
\* after the size prefix have the same id.
C3_IdExcludesFraming ==
    pc = "id" =>
        /\ id = HashBytes(SubSeq(HeaderSerialize(hdr), PrefixSize + 1,
                                 Len(HeaderSerialize(hdr))))
        /\ WireIsWhole => id = HashBytes(SubSeq(wire, PrefixSize + 1, Len(wire)))
        /\ Len(id.digest_of) = Len(HeaderSerialize(hdr)) - PrefixSize

C3_Witness ==
    /\ pc = "id"
    /\ WireIsWhole
    /\ hdr.proof.tag = "Bft"
    /\ id.digest_of = SubSeq(wire, PrefixSize + 1, Len(wire))

\* C4: verify_proof of a BFT header is true exactly when the signature is
\* valid under leader_id's key over the serialized Common (the header bytes
\* between size prefix and proof); it is false once a field of Common was
\* changed after signing or another key pair's public key was put in.
C4_BftSoundness ==
    (pc = "verified" /\ hdr.proof.tag = "Bft") =>
        /\ verified <=> VerifySignature(hdr.proof.leader_id, CommonBytesOnWire(hdr),
                                        hdr.proof.signature)
        /\ signedBy # 0 =>
             (verified <=> /\ hdr.common = signedCommon
                           /\ hdr.proof.leader_id = PublicKeyOf(signedBy))

C4_Witness ==
    /\ pc = "verified"
    /\ hdr.proof.tag = "Bft"
    /\ signedBy # 0
    /\ hdr.common # signedCommon
    /\ hdr.common.block_version = signedCommon.block_version
    /\ ~verified

\* C5: a header whose block_version and proof variant disagree is never
\* serialized successfully and never returned by deserialize.
C5_MismatchRejected ==
    /\ pc = "serialized" => Matching(hdr)
    /\ (pc = "deserialized" /\ decoded.kind = "Ok") => Matching(decoded.value[1])

\* C6: a block_version outside {0, 1, 2}, read from an input that holds the
\* size prefix and Common, makes deserialize return an UnsupportedBlockVersion
\* error, with no header and no proof byte read.
C6_UnsupportedVersionIsError ==
    ( /\ pc = "deserialized"
      /\ Len(wire) >= PrefixSize + CommonSize
      /\ WireVersion(wire) \notin {BLOCK_VERSION_CONSENSUS_NONE,
                                   BLOCK_VERSION_CONSENSUS_BFT,
                                   BLOCK_VERSION_CONSENSUS_GENESIS_PRAOS} )
        => /\ decoded.kind = "Err"
           /\ decoded.error = "UnsupportedBlockVersion"
           /\ decoded.value = <<>>
           /\ decoded.consumed = PrefixSize + CommonSize

\* the bytes deserialize has to read from an input: prefix and Common, and
\* the BFT proof when the input's block_version is BFT
NeededLen(bytes) ==
    IF Len(bytes) >= PrefixSize + 2 /\ WireVersion(bytes) = BLOCK_VERSION_CONSENSUS_BFT
    THEN PrefixSize + CommonSize + BftProofSize
    ELSE PrefixSize + CommonSize

\* C7: an input that ends before a fixed-width field is fully read makes
\* deserialize fail with an error and no header; a header is returned only
\* when every field was read completely.
C7_TruncatedFails ==
    pc = "deserialized" =>
        /\ Len(wire) < NeededLen(wire) =>
             (decoded.kind = "Err" /\ decoded.value = <<>>)
        /\ decoded.kind = "Ok" =>
             /\ Len(wire) >= NeededLen(wire)
             /\ decoded.consumed = NeededLen(wire)
             /\ Len(decoded.value) = 1

C7_Witness ==
    /\ pc = "deserialized"
    /\ Len(wire) = PrefixSize + CommonSize + LeaderIdSize + 18
    /\ WireVersion(wire) = BLOCK_VERSION_CONSENSUS_BFT
    /\ decoded.kind = "Err"

\* C8: block_version GENESIS_PRAOS, read from an input that holds the size
\* prefix and Common, aborts deserialize: no header is returned, whatever
\* bytes follow.
C8_GenesisPraosAborts ==
    ( /\ pc = "deserialized"
      /\ Len(wire) >= PrefixSize + CommonSize
      /\ WireVersion(wire) = BLOCK_VERSION_CONSENSUS_GENESIS_PRAOS )
        => (decoded.kind = "Panic" /\ decoded.value = <<>>)

C8_Witness ==
    /\ pc = "deserialized"
    /\ hdr.proof.tag = "GenesisPraos"
    /\ WireIsWhole
    /\ WireVersion(wire) = BLOCK_VERSION_CONSENSUS_GENESIS_PRAOS
    /\ decoded.kind = "Panic"

\* C9: verify_proof of a header with Proof::None is true whatever Common
\* holds, a block_version other than NONE included.
C9_NoProofAccepted ==
    (pc = "verified" /\ hdr.proof.tag = "None") => verified

C9_Witness ==
    /\ pc = "verified"
    /\ hdr.proof.tag = "None"
    /\ hdr.common.block_version = BLOCK_VERSION_CONSENSUS_BFT
    /\ verified

\* hdr with other VRF fields
WithVrf(h, v) ==
    [h EXCEPT !.proof.vrf_public_key = Fill(VrfPublicSize, v[1]),
              !.proof.vrf_proof = Fill(VrfProofSize, v[2])]

\* C10: verify_proof of a genesis-praos header is true exactly when
\* kes_proof is a valid signature under kes_public_key over the serialized
\* Common; headers that differ only in the VRF fields get the same result.
C10_GenesisPraosKesOnly ==
    (pc = "verified" /\ hdr.proof.tag = "GenesisPraos") =>
        /\ verified <=> VerifySignature(hdr.proof.kes_public_key, CommonBytesOnWire(hdr),
                                        hdr.proof.kes_proof)
        /\ \A v \in (1..NumVrf) \X (1..NumVrf) : VerifyProof(WithVrf(hdr, v)) = verified

C10_Witness ==
    /\ pc = "verified"
    /\ hdr.proof.tag = "GenesisPraos"
    /\ hdr.proof.vrf_public_key # Fill(VrfPublicSize, hdr.proof.vrf_proof[1])
    /\ signedBy # 0
    /\ verified

\* the header of the zero-content BFT scenario has been serialized
BftZeroContentSerialized ==
    /\ pc = "serialized"
    /\ hdr.common.block_version = BLOCK_VERSION_CONSENSUS_BFT
    /\ hdr.common.block_date = [epoch |-> 0, slot_id |-> 0]
    /\ hdr.common.block_content_size = 0
    /\ hdr.proof.tag = "Bft"

\* C11 (as stated): the serialization of a BFT header with date (0,0) and
\* content_size 0 is 2 + 18 + 2*32 + width(leader_id) + width(signature) bytes
\* long, 18 being the fixed-width fields of Common.
C11_BftLengthAsStated ==
    BftZeroContentSerialized =>
        Len(wire) = 2 + 18 + 2 * 32 + Len(hdr.proof.leader_id) + Len(hdr.proof.signature)

\* C11 (amended): the fixed-width fields of Common (block_version 2 bytes,
\* block_content_size, epoch and slot_id 4 bytes each) take 14 bytes, so the
\* serialization is 2 + 14 + 2*32 + width(leader_id) + width(signature) bytes
\* long.
C11_BftLength ==
    BftZeroContentSerialized =>
        Len(wire) = 2 + (2 + 4 + 4 + 4) + 2 * 32
                      + Len(hdr.proof.leader_id) + Len(hdr.proof.signature)

C11_Witness ==
    /\ BftZeroContentSerialized
    /\ signedBy # 0
    /\ Len(wire) = 176

\* bytes with the first two replaced by the size v
WithPrefix(bytes, v) ==
    [i \in 1..Len(bytes) |-> IF i <= 2 THEN PutU16(v)[i] ELSE bytes[i]]

\* C12: deserialize gives the same outcome (the same header, or the same
\* failure) on inputs that differ only in their first two bytes; the decoded
\* header and its id do not depend on the size that was read.
C12_SizeNotValidated ==
    pc = "deserialized" =>
        /\ \A v \in SizeValues : HeaderDeserialize(WithPrefix(wire, v)) = decoded
        /\ ( /\ Len(wire) = Len(HeaderSerialize(hdr))
             /\ WithPrefix(wire, 0) = WithPrefix(HeaderSerialize(hdr), 0) )
              => decoded = HeaderDeserialize(HeaderSerialize(hdr))
        /\ decoded.kind = "Ok" =>
              \A v \in SizeValues :
                  LET other == HeaderDeserialize(WithPrefix(wire, v))
                  IN  /\ other.kind = "Ok"
                      /\ HeaderId(other.value[1]) = HeaderId(decoded.value[1])

C12_Witness ==
    /\ pc = "deserialized"
    /\ Len(wire) >= 2
    /\ U16At(wire, 1) # Len(wire) - 2
    /\ hdr.proof.tag = "Bft"
    /\ decoded.kind = "Ok"
    /\ decoded.value = <<hdr>>

\* C13: every header deserialize returns has block_version NONE with
\* Proof::None or block_version BFT with Proof::Bft; none carries
\* Proof::GenesisPraos or a block_version outside {0, 1}.
C13_DecodedIsMatching ==
    (pc = "deserialized" /\ decoded.kind = "Ok") =>
        LET h == decoded.value[1]
        IN  /\ \/ /\ h.common.block_version = BLOCK_VERSION_CONSENSUS_NONE
                  /\ h.proof.tag = "None"
               \/ /\ h.common.block_version = BLOCK_VERSION_CONSENSUS_BFT
                  /\ h.proof.tag = "Bft"
            /\ h.proof.tag # "GenesisPraos"
            /\ h.common.block_version \in {0, 1}

\* the input was written from a header whose pair does not match, and a
\* header with a matching pair comes back
C13_Witness ==
    /\ pc = "deserialized"
    /\ decoded.kind = "Ok"
    /\ hdr.proof.tag = "GenesisPraos"
    /\ hdr.common.block_version = BLOCK_VERSION_CONSENSUS_BFT
    /\ decoded.value[1].proof.tag = "Bft"

====
